---- MODULE Spec2Model ----
(***************************************************************************)
(* Model of py_plugins/examples/example_py_vuln_detector.py:               *)
(* ExamplePyVulnDetector, an example Tsunami vulnerability detector.       *)
(*                                                                         *)
(* The plugin object has no fields.  The state of the model is what the    *)
(* host scanner observes: the last call it made on the plugin, the value   *)
(* the call returned, the calls the plugin made while serving it, the      *)
(* reports handed back so far and the wall clock the plugin reads.         *)
(*                                                                         *)
(* A protobuf message is a record holding the fields that are set: a       *)
(* field that was never assigned is absent from the record's DOMAIN.       *)
(***************************************************************************)
EXTENDS Integers, Sequences, FiniteSets, TLC

\* ------------------------------------------------------------------ bounds
MaxLen == 2          \* longest matched_services list the host passes
MaxClock == 1        \* the wall clock runs over 0..MaxClock
MaxDetectCalls == 2  \* Detect calls per behaviour

\* ------------------------------------------------------------------ inputs
Targets == {"target_a", "target_b"}
Services == {"svc_a", "svc_b"}

RECURSIVE SeqsUpTo(_)
SeqsUpTo(n) ==
  IF n = 0 THEN {<<>>}
  ELSE LET shorter == SeqsUpTo(n - 1)
       IN shorter \cup {Append(s, x) : s \in {t \in shorter : Len(t) = n - 1}, x \in Services}

ServiceLists == SeqsUpTo(MaxLen)

Range(s) == {s[i] : i \in DOMAIN s}

\* ------------------------------------------------------- protobuf runtime
\* Python's None.
None == [py_none |-> TRUE]

\* timestamp_pb2.Timestamp().GetCurrentTime(): the method stores the current
\* time into the receiver and has no return statement, so the value of the
\* call expression is None; the receiver is a temporary.
GetCurrentTime(now) == [receiver |-> [seconds |-> now], value |-> None]

\* A message constructor skips a keyword argument whose value is None: the
\* field stays unset.
WithField(msg, name, value) ==
  IF value = None THEN msg ELSE msg @@ (name :> value)

\* ---------------------------------------------------------------- plugin
BaseClass == "ExamplePyVulnDetector"
SubClass == "Subclass"

GetPluginDefinition_Filtered ==
  [info |-> [type |-> "VULN_DETECTION",
             name |-> "ExamplePyVulnDetector",
             version |-> "0.1",
             description |-> "This is an example python plugin",
             author |-> "Alice (alice@company.com)"],
   target_service_name |-> <<"http">>]

GetPluginDefinition ==
  [info |-> [type |-> "VULN_DETECTION",
             name |-> "ExamplePyVulnDetector",
             version |-> "0.1",
             description |-> "This is an example python plugin",
             author |-> "Alice (alice@company.com)"]]

IsServiceVulnerable_Stub ==
  FALSE

IsServiceVulnerable ==
  TRUE

\* self.IsServiceVulnerable() is resolved on the class of self: the example
\* class runs its own stub, a subclass that overrides it may answer anything.
IsServiceVulnerableOf(cls) ==
  IF cls = BaseClass THEN {IsServiceVulnerable} ELSE BOOLEAN

Vulnerability(severity) ==
  [main_id |-> [publisher |-> "vulnerability_id_publisher",
                value |-> "VULNERABILITY_ID"],
   severity |-> severity,
   title |-> "Vulnerability Title",
   description |-> "Detailed description of the vulnerability",
   additional_details |->
     << [text_data |-> [text |-> "Some additional technical details."]] >>]

\* mutant: the two arguments are stored in each other's field
BuildDetectionReport_Swapped(target, vulnerable_service, now) ==
  WithField([target_info |-> vulnerable_service,
             network_service |-> target,
             detection_status |-> "VULNERABILITY_VERIFIED",
             vulnerability |-> Vulnerability("CRITICAL")],
            "detection_timestamp", GetCurrentTime(now).value)

\* mutant: the severity is derived from the service
BuildDetectionReport_PerService(target, vulnerable_service, now) ==
  WithField([target_info |-> target,
             network_service |-> vulnerable_service,
             detection_status |-> "VULNERABILITY_VERIFIED",
             vulnerability |->
               Vulnerability(IF vulnerable_service = "svc_a"
                             THEN "CRITICAL" ELSE "HIGH")],
            "detection_timestamp", GetCurrentTime(now).value)

_BuildDetectionReport(target, vulnerable_service, now) ==
  WithField([target_info |-> target,
             network_service |-> vulnerable_service,
             detection_status |-> "VULNERABILITY_VERIFIED",
             vulnerability |-> Vulnerability("CRITICAL")],
            "detection_timestamp", GetCurrentTime(now).value)

\* Calls the plugin makes while it serves a request, in order.
PyBool(b) == IF b THEN "True" ELSE "False"
LogEvent == [fn |-> "logging.info", iter |-> 0, ret |-> "None"]
CheckEvent(i, b) == [fn |-> "IsServiceVulnerable", iter |-> i, ret |-> PyBool(b)]
BuildEvent(i) == [fn |-> "_BuildDetectionReport", iter |-> i, ret |-> "DetectionReport"]

\* The list comprehension of Detect from element i on: the condition is
\* evaluated first, the element expression only when it was true.
\* vulnerable[i] is what the i-th self.IsServiceVulnerable() call returns.
RECURSIVE ListComp(_, _, _, _, _)
ListComp(target, matched_services, vulnerable, now, i) ==
  IF i > Len(matched_services)
  THEN [reports |-> <<>>, trace |-> <<>>]
  ELSE LET rest == ListComp(target, matched_services, vulnerable, now, i + 1)
       IN IF vulnerable[i]
          THEN [reports |-> <<_BuildDetectionReport(target, matched_services[i], now)>>
                            \o rest.reports,
                trace |-> <<CheckEvent(i, TRUE), BuildEvent(i)>> \o rest.trace]
          ELSE [reports |-> rest.reports,
                trace |-> <<CheckEvent(i, FALSE)>> \o rest.trace]

\* mutant: the comprehension starts at the second element
Detect_SkipFirst(target, matched_services, vulnerable, now) ==
  LET comp == ListComp(target, matched_services, vulnerable, now, 2)
  IN [ret |-> [detection_reports |-> comp.reports],
      trace |-> <<LogEvent>> \o comp.trace]

\* mutant: the condition is evaluated once, ahead of the comprehension
Detect_Hoisted(target, matched_services, vulnerable, now) ==
  LET comp == ListComp(target, matched_services, vulnerable, now, 1)
  IN [ret |-> [detection_reports |-> comp.reports],
      trace |-> <<LogEvent, CheckEvent(0, TRUE)>> \o comp.trace]

\* mutant: the comprehension has lost its condition's effect
Detect_NoFilter(target, matched_services, vulnerable, now) ==
  LET n == Len(matched_services)
  IN [ret |-> [detection_reports |->
                 [i \in 1..n |-> _BuildDetectionReport(target, matched_services[i], now)]],
      trace |-> <<LogEvent>>
                \o [k \in 1..(2 * n) |->
                      IF k % 2 = 1 THEN CheckEvent((k + 1) \div 2, vulnerable[(k + 1) \div 2])
                      ELSE BuildEvent(k \div 2)]]

Detect(target, matched_services, vulnerable, now) ==
  LET comp == ListComp(target, matched_services, vulnerable, now, 1)
  IN [ret |-> [detection_reports |-> comp.reports],
      trace |-> <<LogEvent>> \o comp.trace]

\* ------------------------------------------------------------------ state
VARIABLES
  self_class,    \* class of the plugin object the host holds
  now,           \* wall clock
  call,          \* the host's last call: operation, arguments, time
  ret,           \* value the last call returned
  trace,         \* calls the plugin made while serving the last call
  reported,      \* every DetectionReport returned so far
  detect_calls   \* number of Detect calls so far

vars == <<self_class, now, call, ret, trace, reported, detect_calls>>

NoCall == [op |-> "none", target |-> "none", matched_services |-> <<>>, time |-> 0]

InitCommon ==
  /\ now = 0
  /\ call = NoCall
  /\ ret = None
  /\ trace = <<>>
  /\ reported = {}
  /\ detect_calls = 0

Init ==
  /\ self_class = BaseClass
  /\ InitCommon

InitSub ==
  /\ self_class \in {BaseClass, SubClass}
  /\ InitCommon

Tick ==
  /\ now < MaxClock
  /\ now' = now + 1
  /\ UNCHANGED <<self_class, call, ret, trace, reported, detect_calls>>

CallGetPluginDefinition ==
  /\ call' = [op |-> "GetPluginDefinition", target |-> "none",
              matched_services |-> <<>>, time |-> now]
  /\ ret' = GetPluginDefinition
  /\ trace' = <<>>
  /\ UNCHANGED <<self_class, now, reported, detect_calls>>

CallDetect ==
  /\ detect_calls < MaxDetectCalls
  /\ \E target \in Targets, matched_services \in ServiceLists :
       \E vulnerable \in [1..Len(matched_services) -> IsServiceVulnerableOf(self_class)] :
         LET out == Detect(target, matched_services, vulnerable, now)
         IN /\ call' = [op |-> "Detect", target |-> target,
                        matched_services |-> matched_services, time |-> now]
            /\ ret' = out.ret
            /\ trace' = out.trace
            /\ reported' = reported \cup Range(out.ret.detection_reports)
  /\ detect_calls' = detect_calls + 1
  /\ UNCHANGED <<self_class, now>>

CallIsServiceVulnerable ==
  /\ \E r \in IsServiceVulnerableOf(self_class) :
       /\ ret' = r
       /\ trace' = <<>>
  /\ call' = [op |-> "IsServiceVulnerable", target |-> "none",
              matched_services |-> <<>>, time |-> now]
  /\ UNCHANGED <<self_class, now, reported, detect_calls>>

Next ==
  \/ Tick
  \/ CallGetPluginDefinition
  \/ CallDetect
  \/ CallIsServiceVulnerable

Spec == Init /\ [][Next]_vars

\* The same plugin code run on an object of either class.
SpecSub == InitSub /\ [][Next]_vars

\* ------------------------------------------------------------- properties
IsDetect == call.op = "Detect"
Reports == ret.detection_reports
TraceOf(fn) == {k \in DOMAIN trace : trace[k].fn = fn}

\* C1: Detect returns exactly one report per element of matched_services, in
\* the same order: the i-th report is about matched_services[i], duplicates
\* included.
C1_OneReportPerService ==
  IsDetect =>
    /\ Len(Reports) = Len(call.matched_services)
    /\ \A i \in DOMAIN Reports :
         Reports[i].network_service = call.matched_services[i]

C1_Witness ==
  /\ IsDetect
  /\ Len(call.matched_services) >= 2
  /\ call.matched_services[1] = call.matched_services[2]
  /\ Len(Reports) >= 2
  /\ Reports[1].network_service = Reports[2].network_service

\* C2: every report Detect returns has the target of that call as target_info
\* and an element of that call's matched_services as network_service.
C2_ReportsAboutArguments ==
  IsDetect =>
    \A i \in DOMAIN Reports :
      /\ Reports[i].target_info = call.target
      /\ Reports[i].network_service \in Range(call.matched_services)

C2_Witness ==
  /\ IsDetect
  /\ call.target = "target_b"
  /\ Len(Reports) >= 1
  /\ Reports[1].target_info = "target_b"

\* C3: every report carries the same static finding (status, severity, id,
\* title, one text detail), and two reports of any Detect calls differ at
\* most in target_info, network_service and detection_timestamp.
PerCallFields == {"target_info", "network_service", "detection_timestamp"}

C3_StaticFinding ==
  /\ \A r \in reported :
       /\ r.detection_status = "VULNERABILITY_VERIFIED"
       /\ r.vulnerability.severity = "CRITICAL"
       /\ r.vulnerability.main_id =
            [publisher |-> "vulnerability_id_publisher", value |-> "VULNERABILITY_ID"]
       /\ r.vulnerability.title = "Vulnerability Title"
       /\ Len(r.vulnerability.additional_details) = 1
       /\ DOMAIN r.vulnerability.additional_details[1] = {"text_data"}
  /\ \A r1, r2 \in reported :
       /\ DOMAIN r1 \ PerCallFields = DOMAIN r2 \ PerCallFields
       /\ \A f \in DOMAIN r1 \ PerCallFields : r1[f] = r2[f]

C3_Witness ==
  \E r1, r2 \in reported :
    /\ r1.target_info # r2.target_info
    /\ r1.network_service # r2.network_service
    /\ r1.vulnerability = r2.vulnerability

\* C4: GetPluginDefinition returns the same static metadata on every call,
\* before or after Detect calls, with no service-filtering field set.
C4_StaticPluginDefinition ==
  call.op = "GetPluginDefinition" =>
    /\ DOMAIN ret = {"info"}
    /\ ret.info = [type |-> "VULN_DETECTION",
                   name |-> "ExamplePyVulnDetector",
                   version |-> "0.1",
                   description |-> "This is an example python plugin",
                   author |-> "Alice (alice@company.com)"]

C4_Witness ==
  /\ call.op = "GetPluginDefinition"
  /\ detect_calls >= 1
  /\ ret.info.name = "ExamplePyVulnDetector"

\* C5: IsServiceVulnerable returns True on every call, whether the host calls
\* it or Detect does, and whatever was called before.
C5_AlwaysVulnerable ==
  /\ call.op = "IsServiceVulnerable" => ret = TRUE
  /\ \A k \in TraceOf("IsServiceVulnerable") : trace[k].ret = "True"

C5_Witness ==
  /\ call.op = "IsServiceVulnerable"
  /\ detect_calls >= 1
  /\ ret = TRUE

\* C6: Detect on an empty matched_services returns no reports and calls
\* neither IsServiceVulnerable nor _BuildDetectionReport.
C6_EmptyInput ==
  (IsDetect /\ call.matched_services = <<>>) =>
    /\ Reports = <<>>
    /\ TraceOf("IsServiceVulnerable") = {}
    /\ TraceOf("_BuildDetectionReport") = {}

C6_Witness ==
  /\ IsDetect
  /\ call.matched_services = <<>>
  /\ Reports = <<>>
  /\ trace = <<LogEvent>>

\* C7: every report has detection_timestamp set, to the time at which the
\* report was built.
C7_TimestampPopulated ==
  IsDetect =>
    \A i \in DOMAIN Reports :
      /\ "detection_timestamp" \in DOMAIN Reports[i]
      /\ Reports[i].detection_timestamp = [seconds |-> call.time]

\* C8: within one Detect call IsServiceVulnerable is evaluated once per
\* element, in list order; _BuildDetectionReport runs for an element only
\* right after IsServiceVulnerable returned True for it; an element for which
\* it returned False has no report, so the reported services are an
\* order-preserving subsequence of matched_services.
IsSubseq(a, b) ==
  \E f \in [1..Len(a) -> 1..Len(b)] :
    /\ \A i, j \in 1..Len(a) : i < j => f[i] < f[j]
    /\ \A i \in 1..Len(a) : a[i] = b[f[i]]

IsCheck(e) == e.fn = "IsServiceVulnerable"
IsBuild(e) == e.fn = "_BuildDetectionReport"

C8_CheckThenBuild ==
  IsDetect =>
    LET checks == SelectSeq(trace, IsCheck)
        builds == SelectSeq(trace, IsBuild)
        n == Len(call.matched_services)
    IN /\ Len(checks) = n
       /\ \A i \in 1..n : checks[i].iter = i
       /\ \A k \in TraceOf("_BuildDetectionReport") :
            /\ k > 1
            /\ trace[k - 1] = CheckEvent(trace[k].iter, TRUE)
       /\ \A i \in 1..n :
            checks[i].ret = "False" => \A j \in DOMAIN builds : builds[j].iter # i
       /\ Len(Reports) = Len(builds)
       /\ \A j \in DOMAIN builds :
            Reports[j].network_service = call.matched_services[builds[j].iter]
       /\ \A i, j \in DOMAIN builds : i < j => builds[i].iter < builds[j].iter
       /\ IsSubseq([j \in DOMAIN Reports |-> Reports[j].network_service],
                   call.matched_services)

C8_Witness ==
  /\ IsDetect
  /\ self_class = SubClass
  /\ Len(call.matched_services) = 2
  /\ call.matched_services[1] # call.matched_services[2]
  /\ trace = <<LogEvent, CheckEvent(1, FALSE), CheckEvent(2, TRUE), BuildEvent(2)>>
  /\ Len(Reports) = 1
  /\ Reports[1].network_service = call.matched_services[2]

====
